---- MODULE Spec2Model ----
(***************************************************************************)
(* Model of MultiFrameDecoder (examples/data-processing/utils.py): the     *)
(* transport-protocol reassembly of raw CAN frames.  One call of           *)
(* combine_tp_frames is followed statement by statement: the groupby loop, *)
(* the loop over the response IDs, the loop over the filtered rows, the    *)
(* merge of the synthesized frames into the raw table and the final sort.  *)
(* A DataFrame is a sequence of rows; a row is a record whose TimeStamp    *)
(* field is the index of the row.  A hex string is a sequence of           *)
(* one-character strings.  A Python exception ends the call in             *)
(* pc = "error" with err naming the exception.                             *)
(***************************************************************************)
EXTENDS Integers, Sequences, FiniteSets

VARIABLES
    df_raw,                 \* self.df_raw
    res_id_list_hex,        \* self.res_id_list_hex
    res_id_list,            \* self.res_id_list
    profile,                \* the arguments of combine_tp_frames
    pc,                     \* position in combine_tp_frames
    r,                      \* position of the loop over self.res_id_list
    i,                      \* position of the loop over df_raw_filter
    df_raw_filter,
    base_frame,
    frame_list,
    frame_timestamp_list,
    payload_concatenated,
    can_id,
    frame_timestamp,
    df_raw_combined,
    pass,                   \* number of decoders constructed so far: 1 or 2
    err,                    \* the exception raised, "" when none
    df_grouped,             \* decode_tp_data: the group keys still to be iterated
    df_phys,                \* decode_tp_data: the decoded rows so far
    decoder_calls           \* the groups df_decoder.decode_frame was called with

vars == <<df_raw, res_id_list_hex, res_id_list, profile, pc, r, i, df_raw_filter,
          base_frame, frame_list, frame_timestamp_list, payload_concatenated,
          can_id, frame_timestamp, df_raw_combined, pass, err,
          df_grouped, df_phys, decoder_calls>>

\* the locals of decode_tp_data and what the decoder has seen
decode_vars == <<df_grouped, df_phys, decoder_calls>>

----------------------------------------------------------------------------
(* Bounds of the model *)

MaxFrames == 3

----------------------------------------------------------------------------
(* Python values *)

\* None (can_id = None)
NoneVal == -1
\* a local that has not been assigned yet (frame_timestamp)
Unbound == -2

\* `if can_id:` : None and 0 are falsy
Truthy(x) == x # NoneVal /\ x # 0

\* an int compared with a str by == is False
IntEqStr(n, s) == FALSE

\* s[a:]
SliceFrom(s, a) == IF a >= Len(s) THEN <<>> ELSE SubSeq(s, a + 1, Len(s))

\* s[a:b]
Slice(s, a, b) ==
    LET hi == IF b < Len(s) THEN b ELSE Len(s)
    IN  IF a >= hi THEN <<>> ELSE SubSeq(s, a + 1, hi)

\* reversed(s)
Reversed(s) == [k \in 1..Len(s) |-> s[Len(s) + 1 - k]]

RECURSIVE BitAnd(_, _)
\* a & b
BitAnd(a, b) ==
    IF a = 0 \/ b = 0 THEN 0
    ELSE (a % 2) * (b % 2) + 2 * BitAnd(a \div 2, b \div 2)

RECURSIVE BitOr(_, _)
\* a | b
BitOr(a, b) ==
    IF a = 0 THEN b
    ELSE IF b = 0 THEN a
    ELSE (IF a % 2 = 1 \/ b % 2 = 1 THEN 1 ELSE 0) + 2 * BitOr(a \div 2, b \div 2)

LowerDigits == <<"0","1","2","3","4","5","6","7","8","9","a","b","c","d","e","f">>
UpperDigits == <<"0","1","2","3","4","5","6","7","8","9","A","B","C","D","E","F">>

\* the value of one hex digit, in either case
HexVal(c) == (CHOOSE k \in 1..16 : LowerDigits[k] = c \/ UpperDigits[k] = c) - 1

RECURSIVE HexToIntAcc(_, _)
HexToIntAcc(s, acc) ==
    IF s = <<>> THEN acc ELSE HexToIntAcc(Tail(s), 16 * acc + HexVal(Head(s)))

\* int(s, 16) of a non-empty hex string
HexToInt(s) == HexToIntAcc(s, 0)

\* "{:02x}".format(x) of a byte
Format02x(x) == <<LowerDigits[(x \div 16) + 1], LowerDigits[(x % 16) + 1]>>

RECURSIVE JoinHex(_)
\* "".join("{:02x}".format(x) for x in s)
JoinHex(s) == IF s = <<>> THEN <<>> ELSE Format02x(Head(s)) \o JoinHex(Tail(s))

----------------------------------------------------------------------------
(* The presets *)

combine_tp_frames_uds ==
    [ name |-> "uds",
      SINGLE_FRAME_MASK |-> 255, FIRST_FRAME_MASK |-> 240, CONSEQ_FRAME_MASK |-> 240,
      SINGLE_FRAME |-> 0, FIRST_FRAME |-> 16, CONSEQ_FRAME |-> 32,
      first_frame_payload_start |-> 2, conseq_frame_payload_start |-> 1,
      bam_id_hex |-> <<>> ]

combine_tp_frames_nmea ==
    [ name |-> "nmea",
      SINGLE_FRAME_MASK |-> 255, FIRST_FRAME_MASK |-> 15, CONSEQ_FRAME_MASK |-> 0,
      SINGLE_FRAME |-> 255, FIRST_FRAME |-> 0, CONSEQ_FRAME |-> 0,
      first_frame_payload_start |-> 0, conseq_frame_payload_start |-> 1,
      bam_id_hex |-> <<>> ]

combine_tp_frames_j1939(bam_id_hex) ==
    [ name |-> "j1939",
      SINGLE_FRAME_MASK |-> 255, FIRST_FRAME_MASK |-> 255, CONSEQ_FRAME_MASK |-> 0,
      SINGLE_FRAME |-> 255, FIRST_FRAME |-> 32, CONSEQ_FRAME |-> 0,
      first_frame_payload_start |-> 8, conseq_frame_payload_start |-> 1,
      bam_id_hex |-> bam_id_hex ]

----------------------------------------------------------------------------
(* combine_tp_frames, expression by expression *)

\* bam_id: 0 when no bam_id_hex is given
BamId(p) == IF p.bam_id_hex = <<>> THEN 0 ELSE HexToInt(p.bam_id_hex)

\* self.res_id_list = [int(res_id, 16) for res_id in self.res_id_list_hex]
ResIdList(hexes) == [k \in 1..Len(hexes) |-> HexToInt(hexes[k])]

\* df[df["ID"].isin(ids)]
IsIn(df, ids) == SelectSeq(df, LAMBDA row : row.ID \in ids)

\* self.df_raw[self.df_raw["ID"].isin([res_id, bam_id])]
DfRawFilter(df, res_id, bam_id) == IsIn(df, {res_id, bam_id})

Range(s) == {s[k] : k \in 1..Len(s)}

\* the selection without its negation
DfRawExclTp_NoNegation(df, ids) == SelectSeq(df, LAMBDA row : row.ID \in Range(ids))

\* self.df_raw[~self.df_raw["ID"].isin(self.res_id_list)]
DfRawExclTp(df, ids) == SelectSeq(df, LAMBDA row : row.ID \notin Range(ids))

\* first_byte & SINGLE_FRAME_MASK == SINGLE_FRAME
IsSingleFrame(first_byte, p) == BitAnd(first_byte, p.SINGLE_FRAME_MASK) = p.SINGLE_FRAME

\* first_byte & FIRST_FRAME_MASK == FIRST_FRAME & bam_id == "": a chained
\* comparison, a == b and b == "", whose last operand is a str
FirstFrameTagCond(first_byte, p, bam_id) ==
    /\ BitAnd(first_byte, p.FIRST_FRAME_MASK) = BitAnd(p.FIRST_FRAME, bam_id)
    /\ IntEqStr(BitAnd(p.FIRST_FRAME, bam_id), <<>>)

\* (first_byte & FIRST_FRAME_MASK == FIRST_FRAME & bam_id == "") or (bam_id == row_id)
IsFirstFrame(first_byte, row_id, p, bam_id) ==
    FirstFrameTagCond(first_byte, p, bam_id) \/ bam_id = row_id

\* first_byte & CONSEQ_FRAME_MASK == CONSEQ_FRAME
IsConseqFrame(first_byte, p) == BitAnd(first_byte, p.CONSEQ_FRAME_MASK) = p.CONSEQ_FRAME

\* the bytes joined without reversed()
PgnHex_NoReverse(payload) == JoinHex(Slice(payload, 5, 8))

\* pgn_hex = "".join("{:02x}".format(x) for x in reversed(payload[5:8]))
PgnHex(payload) == JoinHex(Reversed(Slice(payload, 5, 8)))

\* can_id = (6 << 26) | (pgn << 8) | 254
CanId(pgn) == BitOr(BitOr(6 * (2 ^ 26), pgn * (2 ^ 8)), 254)

\* construct_new_tp_frame: the base frame itself is written to and returned
construct_new_tp_frame(frame, payload, id) ==
    LET f == [frame EXCEPT !.DataBytes = payload,
                           !.DLC = 0,
                           !.DataLength = Len(payload)]
    IN  IF Truthy(id) THEN [f EXCEPT !.ID = id] ELSE f

\* pd.DataFrame(frame_list, columns=base_frame.index, index=frame_timestamp_list)
DfRawTp(frames, stamps) ==
    [k \in 1..Len(frames) |-> [frames[k] EXCEPT !.TimeStamp = stamps[k]]]

RemoveAt(s, k) == SubSeq(s, 1, k - 1) \o SubSeq(s, k + 1, Len(s))

MinStamp(s) == CHOOSE t \in {s[k].TimeStamp : k \in 1..Len(s)} :
                   \A k \in 1..Len(s) : t <= s[k].TimeStamp

\* the table left as it is
SortIndex_NoSort(df) == {df}

RECURSIVE SortIndex(_)
\* df.sort_index(): the default kind, quicksort, is not a stable sort, so every
\* order that is ascending in the index is a possible result
SortIndex(df) ==
    IF df = <<>> THEN {<<>>}
    ELSE UNION { { <<df[k]>> \o t : t \in SortIndex(RemoveAt(df, k)) } :
                 k \in {j \in 1..Len(df) : df[j].TimeStamp = MinStamp(df)} }

\* the channels of self.df_raw.groupby("BusChannel")
Channels(df) == {df[k].BusChannel : k \in 1..Len(df)}

\* whether some response ID got past `if df_raw_filter.empty: continue`, so that
\* df_raw_combined is no longer the column-less pd.DataFrame() of line 99
HasColumns(df, ids, bam_id) ==
    \E k \in 1..Len(ids) : DfRawFilter(df, ids[k], bam_id) # <<>>

\* the key of groupby("DataLength")
GroupKey_Dlc(frame) == frame.DLC

GroupKey(frame) == frame.DataLength

RECURSIVE SortedSeq(_)
\* the elements of a set of numbers in ascending order
SortedSeq(S) ==
    IF S = {} THEN <<>>
    ELSE LET m == CHOOSE x \in S : \A y \in S : x <= y
         IN  <<m>> \o SortedSeq(S \ {m})

\* the keys of df_raw_combined.groupby("DataLength"), iterated in ascending order
GroupKeys(df) == SortedSeq({GroupKey(df[k]) : k \in 1..Len(df)})

\* the group of one key: the rows of that key, in the order of the table
Group(df, key) == SelectSeq(df, LAMBDA f : GroupKey(f) = key)

\* df_decoder.decode_frame(group): the decoder is not part of this class; it
\* returns rows indexed by the timestamps of the frames it is given, here one row
\* per frame
decode_frame(group) ==
    [k \in 1..Len(group) |-> [TimeStamp |-> group[k].TimeStamp, Frame |-> group[k]]]

----------------------------------------------------------------------------
(* Inputs *)

\* a raw frame as logged: DLC and DataLength are the payload length
RawFrame(t, ch, id, data) ==
    [TimeStamp |-> t, BusChannel |-> ch, ID |-> id, DataBytes |-> data,
     DLC |-> Len(data), DataLength |-> Len(data)]

NoFrame == RawFrame(0, 0, 0, <<>>)

ResHex1 == <<"7","E","8">>
ResHex2 == <<"7","E","9">>
BamHex == <<"1","C","E","C","F","F","0","0">>
UnrelatedId == HexToInt(<<"1","2","3">>)

\* ISO-TP payloads: a single frame, a first frame, a consecutive frame; and a
\* payload that is a single frame under the NMEA tags and of no type under the
\* UDS tags
PayloadsTp == { <<0, 170, 187>>, <<16, 5, 1, 2>>, <<33, 3, 4, 5>>, <<255, 7>> }

\* J1939 payloads: two BAM announces (PGN bytes 00 FE 01 and 34 12 08), a data
\* frame and a single frame
PayloadsBam == { <<32, 9, 0, 2, 255, 0, 254, 1>>, <<32, 9, 0, 2, 255, 52, 18, 8>>,
                 <<1, 161, 162>>, <<255, 7>> }

\* UDS payloads of any shape: an empty payload, a single frame of three bytes
\* (first byte 0x03), a first frame, a consecutive frame, and a first byte 0xFF
\* that carries none of the tags
PayloadsMalformed == { <<>>, <<3, 170, 187, 204>>, <<16, 5, 1, 2>>, <<33, 3, 4, 5>>,
                       <<255, 7>> }

ResLists == { <<ResHex1>>, <<ResHex1, ResHex2>> }

\* the IDs on the bus: the ID that opens a sequence under the profile, a response
\* ID and an unrelated ID
BusIds(p) == { BamId(p), HexToInt(ResHex1), UnrelatedId }

InitWith(profiles, payloads, lists, channels) ==
    /\ profile \in profiles
    /\ res_id_list_hex \in lists
    /\ \E n \in 0..MaxFrames :
         \E ids \in [1..n -> BusIds(profile)], datas \in [1..n -> payloads],
            chs \in [1..n -> channels] :
            df_raw = [k \in 1..n |-> RawFrame(k, chs[k], ids[k], datas[k])]
    /\ res_id_list = ResIdList(res_id_list_hex)
    /\ pc = "groupby"
    /\ r = 1
    /\ i = 1
    /\ df_raw_filter = <<>>
    /\ base_frame = NoFrame
    /\ frame_list = <<>>
    /\ frame_timestamp_list = <<>>
    /\ payload_concatenated = <<>>
    /\ can_id = NoneVal
    /\ frame_timestamp = Unbound
    /\ df_raw_combined = <<>>
    /\ pass = 1
    /\ err = ""
    /\ df_grouped = <<>>
    /\ df_phys = <<>>
    /\ decoder_calls = <<>>

Init == InitWith({combine_tp_frames_uds, combine_tp_frames_nmea}, PayloadsTp, ResLists, {1})

InitBam == InitWith({combine_tp_frames_j1939(BamHex), combine_tp_frames_uds},
                    PayloadsBam, ResLists, {1})

InitMalformed == InitWith({combine_tp_frames_uds}, PayloadsMalformed, ResLists, {1})

\* J1939 payloads of eight bytes: a BAM announce and a data frame
PayloadsTwoIds == { <<32, 9, 0, 2, 255, 0, 254, 1>>, <<1, 161, 162, 163, 164, 5, 6, 7>> }

\* the IDs on the bus: the BAM ID and two response IDs
BusIdsTwoIds == { HexToInt(BamHex), HexToInt(ResHex1), HexToInt(ResHex2) }

\* the J1939 preset on tables of up to MaxFrames + 1 rows, which have room for
\* an announce, a data frame of each of two response IDs and a closing announce
InitTwoIds ==
    /\ profile = combine_tp_frames_j1939(BamHex)
    /\ res_id_list_hex \in ResLists
    /\ \E n \in 0..(MaxFrames + 1) :
         \E ids \in [1..n -> BusIdsTwoIds], datas \in [1..n -> PayloadsTwoIds] :
            df_raw = [k \in 1..n |-> RawFrame(k, 1, ids[k], datas[k])]
    /\ res_id_list = ResIdList(res_id_list_hex)
    /\ pc = "groupby"
    /\ r = 1
    /\ i = 1
    /\ df_raw_filter = <<>>
    /\ base_frame = NoFrame
    /\ frame_list = <<>>
    /\ frame_timestamp_list = <<>>
    /\ payload_concatenated = <<>>
    /\ can_id = NoneVal
    /\ frame_timestamp = Unbound
    /\ df_raw_combined = <<>>
    /\ pass = 1
    /\ err = ""
    /\ df_grouped = <<>>
    /\ df_phys = <<>>
    /\ decoder_calls = <<>>

\* the J1939 preset with one response ID on tables of up to MaxFrames + 1 rows
\* logged on two channels: room for an announce, a data frame on each channel
\* and a closing announce
InitChannels ==
    /\ profile = combine_tp_frames_j1939(BamHex)
    /\ res_id_list_hex = <<ResHex1>>
    /\ \E n \in 0..(MaxFrames + 1) :
         \E ids \in [1..n -> {HexToInt(BamHex), HexToInt(ResHex1)}],
            datas \in [1..n -> PayloadsTwoIds], chs \in [1..n -> {1, 2}] :
            df_raw = [k \in 1..n |-> RawFrame(k, chs[k], ids[k], datas[k])]
    /\ res_id_list = ResIdList(res_id_list_hex)
    /\ pc = "groupby"
    /\ r = 1
    /\ i = 1
    /\ df_raw_filter = <<>>
    /\ base_frame = NoFrame
    /\ frame_list = <<>>
    /\ frame_timestamp_list = <<>>
    /\ payload_concatenated = <<>>
    /\ can_id = NoneVal
    /\ frame_timestamp = Unbound
    /\ df_raw_combined = <<>>
    /\ pass = 1
    /\ err = ""
    /\ df_grouped = <<>>
    /\ df_phys = <<>>
    /\ decoder_calls = <<>>

----------------------------------------------------------------------------
(* Actions *)

Raise(e) ==
    /\ pc' = "error"
    /\ err' = e

\* lines 99-101: df_raw_combined = pd.DataFrame(); the loop over the channels.
\* Without a channel the loop body never runs and the call returns None.
GroupBy ==
    /\ pc = "groupby"
    /\ df_raw_combined' = <<>>
    /\ r' = 1
    /\ pc' = IF Channels(df_raw) = {} THEN "done_none" ELSE "res"
    /\ UNCHANGED <<df_raw, res_id_list_hex, res_id_list, profile, i, df_raw_filter,
                   base_frame, frame_list, frame_timestamp_list, payload_concatenated,
                   can_id, frame_timestamp, pass, err, decode_vars>>

\* lines 103-120: the next response ID, its filtered rows and base frame
NextResId ==
    /\ pc = "res"
    /\ IF r > Len(res_id_list)
       THEN /\ pc' = "sort"
            /\ UNCHANGED <<r, i, df_raw_filter, base_frame, frame_list,
                           frame_timestamp_list, payload_concatenated, can_id>>
       ELSE LET filtered == DfRawFilter(df_raw, res_id_list[r], BamId(profile))
            IN  IF filtered = <<>>
                THEN /\ r' = r + 1
                     /\ UNCHANGED <<pc, i, df_raw_filter, base_frame, frame_list,
                                    frame_timestamp_list, payload_concatenated, can_id>>
                ELSE /\ df_raw_filter' = filtered
                     /\ base_frame' = filtered[1]
                     /\ frame_list' = <<>>
                     /\ frame_timestamp_list' = <<>>
                     /\ payload_concatenated' = <<>>
                     /\ can_id' = NoneVal
                     /\ i' = 1
                     /\ pc' = "row"
                     /\ UNCHANGED r
    /\ UNCHANGED <<df_raw, res_id_list_hex, res_id_list, profile, frame_timestamp,
                   df_raw_combined, pass, err, decode_vars>>

\* lines 123-159: one row of df_raw_filter
ProcessRow ==
    /\ pc = "row"
    /\ i <= Len(df_raw_filter)
    /\ LET row == df_raw_filter[i]
           index == row.TimeStamp
           payload == row.DataBytes
           row_id == row.ID
           bam_id == BamId(profile)
           keep == /\ UNCHANGED <<base_frame, frame_list, frame_timestamp_list,
                                  payload_concatenated, can_id, frame_timestamp, i>>
       IN  IF payload = <<>>
           THEN \* payload[0] of an empty payload
                Raise("IndexError") /\ keep
           ELSE IF IsSingleFrame(payload[1], profile)
           THEN \* construct_new_tp_frame(base_frame, payload[1:]) lacks can_id
                Raise("TypeError") /\ keep
           ELSE IF IsFirstFrame(payload[1], row_id, profile, bam_id)
           THEN LET flush == Len(payload_concatenated) > 0
                    new_frame == construct_new_tp_frame(base_frame, payload_concatenated, can_id)
                    pgn_hex == PgnHex(payload)
                IN  IF flush /\ frame_timestamp = Unbound
                    THEN \* frame_timestamp is read before any assignment
                         Raise("UnboundLocalError") /\ keep
                    ELSE IF profile.bam_id_hex # <<>> /\ pgn_hex = <<>>
                    THEN \* int("", 16)
                         Raise("ValueError") /\ keep
                    ELSE /\ base_frame' = IF flush THEN new_frame ELSE base_frame
                         /\ frame_list' = IF flush THEN Append(frame_list, new_frame)
                                          ELSE frame_list
                         /\ frame_timestamp_list' =
                                IF flush THEN Append(frame_timestamp_list, frame_timestamp)
                                ELSE frame_timestamp_list
                         /\ frame_timestamp' = index
                         /\ can_id' = IF profile.bam_id_hex # <<>>
                                      THEN CanId(HexToInt(pgn_hex)) ELSE can_id
                         /\ payload_concatenated' =
                                SliceFrom(payload, profile.first_frame_payload_start)
                         /\ i' = i + 1
                         /\ UNCHANGED <<pc, err>>
           ELSE IF IsConseqFrame(payload[1], profile)
           THEN /\ payload_concatenated' = payload_concatenated \o
                        SliceFrom(payload, profile.conseq_frame_payload_start)
                /\ i' = i + 1
                /\ UNCHANGED <<pc, err, base_frame, frame_list, frame_timestamp_list,
                               can_id, frame_timestamp>>
           ELSE /\ i' = i + 1
                /\ UNCHANGED <<pc, err, base_frame, frame_list, frame_timestamp_list,
                               payload_concatenated, can_id, frame_timestamp>>
    /\ UNCHANGED <<df_raw, res_id_list_hex, res_id_list, profile, r, df_raw_filter,
                   df_raw_combined, pass, decode_vars>>

\* lines 161-164: after the last row, the raw table without the response IDs,
\* followed by the frames synthesized for this response ID
Merge ==
    /\ pc = "row"
    /\ i > Len(df_raw_filter)
    /\ df_raw_combined' = DfRawExclTp(df_raw, res_id_list) \o
                          DfRawTp(frame_list, frame_timestamp_list)
    /\ r' = r + 1
    /\ pc' = "res"
    /\ UNCHANGED <<df_raw, res_id_list_hex, res_id_list, profile, i, df_raw_filter,
                   base_frame, frame_list, frame_timestamp_list, payload_concatenated,
                   can_id, frame_timestamp, pass, err, decode_vars>>

\* lines 166-168: sort and return, inside the body of the loop over the channels
SortReturn ==
    /\ pc = "sort"
    /\ df_raw_combined' \in SortIndex(df_raw_combined)
    /\ pc' = "done"
    /\ UNCHANGED <<df_raw, res_id_list_hex, res_id_list, profile, r, i, df_raw_filter,
                   base_frame, frame_list, frame_timestamp_list, payload_concatenated,
                   can_id, frame_timestamp, pass, err, decode_vars>>

\* lines 67-72: a second decoder, constructed on the table the first call
\* returned, with the same response IDs, and the same preset called on it.  groupby("BusChannel") on the
\* column-less pd.DataFrame() raises KeyError.
Reapply ==
    /\ pc = "done"
    /\ pass = 1
    /\ Len(df_raw_combined) <= MaxFrames   \* the tables of the model have at most MaxFrames rows
    /\ pass' = pass + 1
    /\ df_raw' = df_raw_combined
    /\ res_id_list' = ResIdList(res_id_list_hex)
    /\ IF HasColumns(df_raw, res_id_list, BamId(profile))
       THEN pc' = "groupby" /\ err' = err
       ELSE Raise("KeyError")
    /\ r' = 1
    /\ i' = 1
    /\ df_raw_filter' = <<>>
    /\ base_frame' = NoFrame
    /\ frame_list' = <<>>
    /\ frame_timestamp_list' = <<>>
    /\ payload_concatenated' = <<>>
    /\ can_id' = NoneVal
    /\ frame_timestamp' = Unbound
    /\ df_raw_combined' = <<>>
    /\ UNCHANGED <<res_id_list_hex, profile, decode_vars>>

\* lines 170-177: decode_tp_data(df_raw_combined, df_decoder) on what
\* combine_tp_frames returned.  None has no groupby; groupby("DataLength") on
\* the column-less pd.DataFrame() raises KeyError.
DecodeStart ==
    /\ pc \in {"done", "done_none"}
    /\ IF pc = "done_none"
       THEN Raise("AttributeError") /\ UNCHANGED df_grouped
       ELSE IF ~HasColumns(df_raw, res_id_list, BamId(profile))
       THEN Raise("KeyError") /\ UNCHANGED df_grouped
       ELSE /\ df_grouped' = GroupKeys(df_raw_combined)
            /\ pc' = "decode"
            /\ err' = err
    /\ df_phys' = <<>>
    /\ UNCHANGED <<df_raw, res_id_list_hex, res_id_list, profile, r, i, df_raw_filter,
                   base_frame, frame_list, frame_timestamp_list, payload_concatenated,
                   can_id, frame_timestamp, df_raw_combined, pass, decoder_calls>>

\* lines 178-180: one group is decoded and appended
DecodeGroup ==
    /\ pc = "decode"
    /\ df_grouped # <<>>
    /\ LET group == Group(df_raw_combined, Head(df_grouped))
       IN  /\ decoder_calls' = Append(decoder_calls, group)
           /\ df_phys' = df_phys \o decode_frame(group)
    /\ df_grouped' = Tail(df_grouped)
    /\ UNCHANGED <<df_raw, res_id_list_hex, res_id_list, profile, pc, r, i,
                   df_raw_filter, base_frame, frame_list, frame_timestamp_list,
                   payload_concatenated, can_id, frame_timestamp, df_raw_combined,
                   pass, err>>

\* lines 182-183: after the last group, sort and return
DecodeReturn ==
    /\ pc = "decode"
    /\ df_grouped = <<>>
    /\ df_phys' \in SortIndex(df_phys)
    /\ pc' = "decoded"
    /\ UNCHANGED <<df_raw, res_id_list_hex, res_id_list, profile, r, i, df_raw_filter,
                   base_frame, frame_list, frame_timestamp_list, payload_concatenated,
                   can_id, frame_timestamp, df_raw_combined, pass, err, df_grouped,
                   decoder_calls>>

Next ==
    \/ GroupBy
    \/ NextResId
    \/ ProcessRow
    \/ Merge
    \/ SortReturn
    \/ Reapply
    \/ DecodeStart
    \/ DecodeGroup
    \/ DecodeReturn

Spec == Init /\ [][Next]_vars

SpecBam == InitBam /\ [][Next]_vars

SpecMalformed == InitMalformed /\ [][Next]_vars

SpecTwoIds == InitTwoIds /\ [][Next]_vars

SpecChannels == InitChannels /\ [][Next]_vars

----------------------------------------------------------------------------
(* Vocabulary of the properties *)

Targets == Range(res_id_list)

\* the rows of a table that carry one arbitration ID
RowsOf(df, id) == IsIn(df, {id})

\* how often a row occurs in a table
Count(df, f) == Cardinality({k \in 1..Len(df) : df[k] = f})

IsSorted(df) == \A k \in 1..Len(df) - 1 : df[k].TimeStamp <= df[k + 1].TimeStamp

RECURSIVE StableSort(_)
\* the ascending order in which rows of equal TimeStamp keep their order
StableSort(df) ==
    IF df = <<>> THEN <<>>
    ELSE LET k == CHOOSE j \in 1..Len(df) :
                      /\ df[j].TimeStamp = MinStamp(df)
                      /\ \A h \in 1..j - 1 : df[h].TimeStamp # MinStamp(df)
         IN  <<df[k]>> \o StableSort(RemoveAt(df, k))

\* the first frame tag of the profile: first_byte & FIRST_FRAME_MASK == FIRST_FRAME
HasFirstTag(first_byte, p) == BitAnd(first_byte, p.FIRST_FRAME_MASK) = p.FIRST_FRAME

\* the frame type of a row of a watched ID by the tags of the profile
FrameType(row, p) ==
    IF row.DataBytes = <<>> THEN "none"
    ELSE IF IsSingleFrame(row.DataBytes[1], p) THEN "single"
    ELSE IF HasFirstTag(row.DataBytes[1], p) THEN "first"
    ELSE IF IsConseqFrame(row.DataBytes[1], p) THEN "conseq"
    ELSE "none"

RECURSIVE ConseqBytes(_, _)
\* the bytes of consecutive frames from conseq_frame_payload_start, in order
ConseqBytes(rows, p) ==
    IF rows = <<>> THEN <<>>
    ELSE SliceFrom(Head(rows).DataBytes, p.conseq_frame_payload_start) \o
         ConseqBytes(Tail(rows), p)

\* the rows of the filtered table handled so far: row i too once it has raised
Handled == IF pc = "error" THEN 1..i ELSE 1..(i - 1)

\* the rows among the first n of the filtered table that take the first frame
\* branch of the loop
FirstRows(n) ==
    {k \in 1..n : /\ df_raw_filter[k].DataBytes # <<>>
                  /\ ~IsSingleFrame(df_raw_filter[k].DataBytes[1], profile)
                  /\ IsFirstFrame(df_raw_filter[k].DataBytes[1], df_raw_filter[k].ID,
                                  profile, BamId(profile))}

Max(S) == CHOOSE x \in S : \A y \in S : y <= x

\* the loop over the rows of a response ID has run to its end and was merged
RowsExhausted ==
    /\ pc \in {"res", "sort", "done"}
    /\ df_raw_filter # <<>>
    /\ i > Len(df_raw_filter)

----------------------------------------------------------------------------
(* C1 *)

\* C1: every single frame of the watched ID that the loop has handled gave
\* exactly one synthesized frame, at the frame's own timestamp, with the payload
\* without its first byte and the target ID as arbitration ID.
C1_SingleFrameEmitted ==
    (pc \in {"row", "error"} /\ r <= Len(res_id_list)) =>
        \A k \in Handled \cap 1..Len(df_raw_filter) :
            LET row == df_raw_filter[k]
            IN  (row.ID = res_id_list[r] /\ FrameType(row, profile) = "single") =>
                    Cardinality({j \in 1..Len(frame_list) :
                        /\ frame_timestamp_list[j] = row.TimeStamp
                        /\ frame_list[j].DataBytes = Tail(row.DataBytes)
                        /\ frame_list[j].ID = res_id_list[r]}) = 1

----------------------------------------------------------------------------
(* C2 *)

\* C2: without a broadcast ID, when the frames of a watched ID are a first frame
\* followed by one or more consecutive frames, the returned table holds one frame
\* of that ID: at the first frame's timestamp, with the first frame's bytes from
\* first_frame_payload_start followed by the consecutive frames' bytes from
\* conseq_frame_payload_start.
C2_Reassembly ==
    \A k \in 1..Len(res_id_list) :
        LET rows == RowsOf(df_raw, res_id_list[k])
            out == df_raw_combined
        IN  ( /\ pc = "done"
              /\ pass = 1
              /\ profile.bam_id_hex = <<>>
              /\ Len(rows) >= 2
              /\ FrameType(rows[1], profile) = "first"
              /\ \A j \in 2..Len(rows) : FrameType(rows[j], profile) = "conseq" )
            => /\ Cardinality({j \in 1..Len(out) : out[j].ID = res_id_list[k]}) = 1
               /\ \E j \in 1..Len(out) :
                    /\ out[j].ID = res_id_list[k]
                    /\ out[j].TimeStamp = rows[1].TimeStamp
                    /\ out[j].DataBytes =
                         SliceFrom(rows[1].DataBytes, profile.first_frame_payload_start)
                         \o ConseqBytes(Tail(rows), profile)

----------------------------------------------------------------------------
(* C3 *)

\* C3: when the rows of a response ID are exhausted after a first frame was
\* taken, the merged table holds a frame at the timestamp of the last first
\* frame whose payload is what was accumulated since.
C3_EndOfStreamFlush ==
    (RowsExhausted /\ pass = 1 /\ FirstRows(Len(df_raw_filter)) # {}) =>
        \E j \in 1..Len(df_raw_combined) :
            /\ df_raw_combined[j].TimeStamp =
                   df_raw_filter[Max(FirstRows(Len(df_raw_filter)))].TimeStamp
            /\ df_raw_combined[j].DataBytes = payload_concatenated
            /\ df_raw_combined[j].DLC = 0

----------------------------------------------------------------------------
(* C4 *)

\* C4: every input frame whose ID is not a target ID is in the returned table
\* exactly once, with the same field values and timestamp.
C4_UnrelatedPassThrough ==
    (pc = "done" /\ pass = 1) =>
        \A k \in 1..Len(df_raw) :
            df_raw[k].ID \notin Targets => Count(df_raw_combined, df_raw[k]) = 1

----------------------------------------------------------------------------
(* C5 *)

\* C5: every frame of the returned table that carries a target ID is one of the
\* frames synthesized in the call; no row of the raw table with a target ID is
\* kept.
C5_NoRawTargetFrames ==
    pc = "done" =>
        \A k \in 1..Len(df_raw_combined) :
            df_raw_combined[k].ID \in Targets =>
                Count(df_raw_combined, df_raw_combined[k]) =
                    Count(DfRawTp(frame_list, frame_timestamp_list), df_raw_combined[k])

\* a first call that returned, on a table with raw frames of a target ID, a
\* table that holds a synthesized frame of that ID
C5_Witness ==
    /\ pc = "done"
    /\ pass = 1
    /\ \E k \in 1..Len(df_raw) : df_raw[k].ID \in Targets
    /\ \E k \in 1..Len(df_raw_combined) :
         df_raw_combined[k].ID \in Targets /\ df_raw_combined[k].DLC = 0

----------------------------------------------------------------------------
(* C6 *)

\* C6 as stated: the final sort leaves the table ascending in the timestamp with
\* rows of equal timestamp in the order they had before the sort.
C6_StableOrder ==
    [][pc = "sort" => df_raw_combined' = StableSort(df_raw_combined)]_vars

\* C6 as amended: the returned table has non-decreasing timestamps (the order of
\* rows of equal timestamp is not determined).
C6_Sorted == pc = "done" => IsSorted(df_raw_combined)

\* a returned table with a synthesized frame and a raw frame at one timestamp,
\* followed by a later frame
C6_Witness ==
    /\ pc = "done"
    /\ pass = 1
    /\ \E j, k \in 1..Len(df_raw_combined) :
         /\ j # k
         /\ df_raw_combined[j].TimeStamp = df_raw_combined[k].TimeStamp
         /\ df_raw_combined[j].DLC = 0
         /\ df_raw_combined[k].DLC # 0
    /\ \E j \in 1..Len(df_raw_combined) - 1 :
         df_raw_combined[j].TimeStamp < df_raw_combined[j + 1].TimeStamp

----------------------------------------------------------------------------
(* C7 *)

RECURSIVE Consumed(_, _, _)
\* the frames of one watched ID that belong to sequences: single frames, first
\* frames, and consecutive frames that follow a first frame
Consumed(rows, p, accumulating) ==
    IF rows = <<>> THEN 0
    ELSE LET t == FrameType(Head(rows), p)
         IN  IF t = "single" THEN 1 + Consumed(Tail(rows), p, accumulating)
             ELSE IF t = "first" THEN 1 + Consumed(Tail(rows), p, TRUE)
             ELSE IF t = "conseq" /\ accumulating THEN 1 + Consumed(Tail(rows), p, TRUE)
             ELSE Consumed(Tail(rows), p, accumulating)

\* the sequences of one watched ID: one per single frame and one per first frame
Sequences(rows, p) ==
    Cardinality({k \in 1..Len(rows) : FrameType(rows[k], p) \in {"single", "first"}})

RECURSIVE SumOver(_, _)
SumOver(f, ids) ==
    IF ids = {} THEN 0
    ELSE LET x == CHOOSE y \in ids : TRUE IN f[x] + SumOver(f, ids \ {x})

\* C7: without a broadcast ID, the returned table has N - consumed + M frames,
\* for N input frames, M sequences and the frames consumed by them.
C7_FrameCount ==
    (pc = "done" /\ pass = 1 /\ profile.bam_id_hex = <<>>) =>
        Len(df_raw_combined) =
            Len(df_raw)
            - SumOver([x \in Targets |-> Consumed(RowsOf(df_raw, x), profile, FALSE)], Targets)
            + SumOver([x \in Targets |-> Sequences(RowsOf(df_raw, x), profile)], Targets)

----------------------------------------------------------------------------
(* C8 *)

\* the byte at 0-based position k, 0 when the payload is shorter
ByteAt(payload, k) == IF k < Len(payload) THEN payload[k + 1] ELSE 0

\* the 24-bit value of bytes 5..7, little-endian
Pgn24(payload) ==
    ByteAt(payload, 5) + 256 * ByteAt(payload, 6) + 65536 * ByteAt(payload, 7)

\* C8: whenever a row makes the loop emit a frame, then under a broadcast ID,
\* for a sequence announced on that ID, the frame's ID is
\* (6 << 26) | (pgn << 8) | 254 with pgn the little-endian value of bytes 5..7
\* of the announce; without a broadcast ID the frame's ID is that of the base
\* frame as read from the table.
C8_PgnArbitrationId ==
    [][(pc = "row" /\ Len(frame_list') > Len(frame_list)) =>
         LET f == frame_list'[Len(frame_list')]
             announces == FirstRows(i - 1)
         IN  IF profile.bam_id_hex # <<>>
             THEN announces # {} =>
                    f.ID = BitOr(BitOr(6 * (2 ^ 26),
                                 Pgn24(df_raw_filter[Max(announces)].DataBytes) * (2 ^ 8)), 254)
             ELSE f.ID = df_raw_filter[1].ID]_vars

\* a call under the J1939 preset that returned a table in which the frame
\* synthesized at an announce's timestamp carries the ID built from its PGN
C8_Witness ==
    /\ pc = "done"
    /\ pass = 1
    /\ profile.bam_id_hex # <<>>
    /\ \E j \in 1..Len(df_raw_combined), k \in 1..Len(df_raw) :
         /\ df_raw[k].ID = BamId(profile)
         /\ df_raw_combined[j].TimeStamp = df_raw[k].TimeStamp
         /\ df_raw_combined[j].DLC = 0
         /\ df_raw_combined[j].DataBytes # <<>>
         /\ df_raw_combined[j].ID =
              BitOr(BitOr(6 * (2 ^ 26), Pgn24(df_raw[k].DataBytes) * (2 ^ 8)), 254)

----------------------------------------------------------------------------
(* C9 *)

\* C9: the call on a table returned by an earlier call with the same response
\* IDs and preset returns that table unchanged.
C9_Idempotent ==
    (pass = 2 /\ pc = "done") => df_raw_combined = df_raw

----------------------------------------------------------------------------
(* C10 *)

\* C10: a call in which every response ID is absent from the table, so that
\* none gives a synthesized frame, returns the frames of the table that are
\* left after the target IDs are removed.
C10_AbsentIdsTolerated ==
    ( /\ pc = "done"
      /\ pass = 1
      /\ \A k \in 1..Len(res_id_list) :
            DfRawFilter(df_raw, res_id_list[k], BamId(profile)) = <<>> )
    => df_raw_combined = DfRawExclTp(df_raw, res_id_list)

----------------------------------------------------------------------------
(* C11 *)

\* C11: the first call never raises, whatever the payloads of the watched IDs
\* (an empty payload, any first byte, the frame types in any order), and a frame
\* of a watched ID that carries none of the three tags is in the returned table
\* exactly once, as it was read.
C11_NeverRaises ==
    /\ pass = 1 => pc # "error"
    /\ (pc = "done" /\ pass = 1) =>
          \A k \in 1..Len(df_raw) :
              (df_raw[k].ID \in Targets /\ FrameType(df_raw[k], profile) = "none") =>
                  Count(df_raw_combined, df_raw[k]) = 1

----------------------------------------------------------------------------
(* C12 *)

\* C12: under the UDS preset the row of a watched ID is handled by the high
\* nibble of its first byte alone, whatever the low nibble: 0 emits a frame with
\* the payload from byte 1 (single frame), 1 starts the accumulator with the
\* payload from byte 2 (first frame), 2 appends the payload from byte 1
\* (consecutive frame).
C12_HighNibble ==
    [][( /\ pc = "row"
         /\ i <= Len(df_raw_filter)
         /\ profile.name = "uds"
         /\ df_raw_filter[i].ID = res_id_list[r]
         /\ df_raw_filter[i].DataBytes # <<>> ) =>
         LET payload == df_raw_filter[i].DataBytes
             nibble == payload[1] \div 16
         IN  /\ nibble = 0 =>
                   /\ Len(frame_list') = Len(frame_list) + 1
                   /\ frame_list'[Len(frame_list')].DataBytes = SliceFrom(payload, 1)
             /\ nibble = 1 => payload_concatenated' = SliceFrom(payload, 2)
             /\ nibble = 2 =>
                   payload_concatenated' = payload_concatenated \o SliceFrom(payload, 1)]_vars

----------------------------------------------------------------------------
(* C13 *)

RECURSIVE CountIn(_, _)
\* how often a frame occurs in the groups of a sequence of decoder calls
CountIn(calls, f) ==
    IF calls = <<>> THEN 0 ELSE Count(Head(calls), f) + CountIn(Tail(calls), f)

\* every frame of the merged table was forwarded exactly once, each call got
\* frames of one DataLength, and there was one call per DataLength of the table
ForwardedOncePerLength ==
    /\ \A k \in 1..Len(df_raw_combined) :
          CountIn(decoder_calls, df_raw_combined[k]) =
              Count(df_raw_combined, df_raw_combined[k])
    /\ \A c \in 1..Len(decoder_calls) :
          /\ decoder_calls[c] # <<>>
          /\ Range(decoder_calls[c]) \subseteq Range(df_raw_combined)
          /\ \A f, g \in Range(decoder_calls[c]) : f.DataLength = g.DataLength
    /\ \A c, d \in 1..Len(decoder_calls) :
          c # d => decoder_calls[c][1].DataLength # decoder_calls[d][1].DataLength
    /\ Len(decoder_calls) =
          Cardinality({df_raw_combined[k].DataLength : k \in 1..Len(df_raw_combined)})

----------------------------------------------------------------------------
(* C14 *)

\* C14: when a row takes the first frame branch after an earlier row of the
\* same loop did (a sequence is in progress), the loop goes on with one more
\* synthesized frame, which holds the payload accumulated so far, empty or not,
\* at the timestamp of the earlier first frame; and the new sequence starts from
\* the bytes of the new first frame alone, at its timestamp.
C14_FlushOnFirstFrame ==
    [][( /\ pc = "row"
         /\ i \in FirstRows(Len(df_raw_filter))
         /\ FirstRows(i - 1) # {} ) =>
         /\ pc' = "row"
         /\ Len(frame_list') = Len(frame_list) + 1
         /\ frame_list'[Len(frame_list')].DataBytes = payload_concatenated
         /\ frame_timestamp_list' =
                Append(frame_timestamp_list, df_raw_filter[Max(FirstRows(i - 1))].TimeStamp)
         /\ frame_timestamp' = df_raw_filter[i].TimeStamp
         /\ payload_concatenated' =
                SliceFrom(df_raw_filter[i].DataBytes, profile.first_frame_payload_start)]_vars

----------------------------------------------------------------------------
(* C15 *)

\* C15: when the rows of a response ID that gave synthesized frames are merged,
\* the frames synthesized for the response IDs before it, which stand after the
\* raw rows in the merged table so far, are in the new merged table too: the
\* returned table holds the synthesized frames of every response ID.
C15_EveryIdKept ==
    [][(pc = "row" /\ pc' = "res" /\ frame_list # <<>>) =>
         LET kept == Len(DfRawExclTp(df_raw, res_id_list))
         IN  \A k \in (kept + 1)..Len(df_raw_combined) :
                 Count(df_raw_combined', df_raw_combined[k]) >= 1]_vars

----------------------------------------------------------------------------
(* C16 *)

\* the rows before row n that gave bytes to the payload accumulated at row n:
\* the last row that took the first frame branch, and the rows after it, or
\* every row when there was none
Contributors(n) ==
    LET start == IF FirstRows(n - 1) = {} THEN 1 ELSE Max(FirstRows(n - 1))
    IN  {k \in start..(n - 1) :
            IF k \in FirstRows(n - 1)
            THEN SliceFrom(df_raw_filter[k].DataBytes, profile.first_frame_payload_start) # <<>>
            ELSE /\ FrameType(df_raw_filter[k], profile) = "conseq"
                 /\ SliceFrom(df_raw_filter[k].DataBytes,
                              profile.conseq_frame_payload_start) # <<>>}

\* C16: whenever a row makes the loop emit a frame, the rows that gave the bytes
\* of its payload were logged on one channel.
C16_SingleChannelPayload ==
    [][(pc = "row" /\ Len(frame_list') > Len(frame_list)) =>
         Cardinality({df_raw_filter[k].BusChannel : k \in Contributors(i)}) <= 1]_vars

----------------------------------------------------------------------------
(* C17 *)

\* C17: whenever a row makes the loop emit a frame, the frame has DataLength
\* equal to the number of its bytes and DLC 0, its channel is that of the first
\* raw frame of the response ID, and its ID is the response ID unless an ID was
\* reconstructed for its sequence, in which case it is that ID.
C17_SynthesizedFields ==
    [][(pc = "row" /\ Len(frame_list') > Len(frame_list)) =>
         LET f == frame_list'[Len(frame_list')]
             target == res_id_list[r]
             raw == RowsOf(df_raw, target)
         IN  /\ f.DataLength = Len(f.DataBytes)
             /\ f.DLC = 0
             /\ raw # <<>> => f.BusChannel = raw[1].BusChannel
             /\ f.ID = IF can_id = NoneVal THEN target ELSE can_id]_vars

----------------------------------------------------------------------------
(* C18 *)

\* C18: when a row with the single frame tag is handled after a row of the same
\* loop took the first frame branch (a sequence is in progress), the loop goes
\* on to the next row with the accumulated payload, the start timestamp and the
\* reconstructed ID of the sequence as they were.
C18_SingleLeavesSequence ==
    [][( /\ pc = "row"
         /\ i <= Len(df_raw_filter)
         /\ FrameType(df_raw_filter[i], profile) = "single"
         /\ FirstRows(i - 1) # {} ) =>
         /\ pc' = "row"
         /\ i' = i + 1
         /\ payload_concatenated' = payload_concatenated
         /\ frame_timestamp' = frame_timestamp
         /\ can_id' = can_id]_vars

----------------------------------------------------------------------------
(* C19 *)

\* C19: without a broadcast ID, the rows that the loop of a response ID
\* classifies, and the base frame it copies, are frames of the response IDs:
\* no frame of another ID, ID 0 included, is among them.
C19_UnwatchedNeverInspected ==
    (profile.bam_id_hex = <<>> /\ pc = "row") =>
        /\ \A k \in 1..Len(df_raw_filter) : df_raw_filter[k].ID \in Targets
        /\ base_frame.ID \in Targets

----------------------------------------------------------------------------
(* C20 *)

\* C20: when a row takes the first frame branch, then if no earlier row of the
\* loop did (the key is Idle), the loop goes on without a new synthesized frame,
\* whatever consecutive frames came before; otherwise a frame it emits is keyed
\* by the timestamp of the last earlier row of the loop that took the first
\* frame branch.
C20_KeyedByOwnFirstFrame ==
    [][(pc = "row" /\ i \in FirstRows(Len(df_raw_filter))) =>
         IF FirstRows(i - 1) = {}
         THEN /\ pc' = "row"
              /\ frame_list' = frame_list
              /\ frame_timestamp_list' = frame_timestamp_list
         ELSE Len(frame_timestamp_list') > Len(frame_timestamp_list) =>
                  frame_timestamp_list'[Len(frame_timestamp_list')] =
                      df_raw_filter[Max(FirstRows(i - 1))].TimeStamp]_vars

====
